---- MODULE Spec2Model ----
(***************************************************************************)
(* SS IntelliBot (streamlit_app.py): one Streamlit session.                *)
(*                                                                         *)
(* Streamlit re-runs main() from top to bottom on every user-visible event *)
(* (page load, widget change, Clear Chat click, chat submission, summary   *)
(* or download click).  One action of this module is one such run of       *)
(* main() for one event.  st.session_state survives between runs; the      *)
(* locals of main() and build_prompt() are kept as variables so that what  *)
(* the run handed to the search and completion services can be inspected.  *)
(*                                                                         *)
(* Texts are sequences of one-character strings.                           *)
(***************************************************************************)
EXTENDS Integers, Sequences, FiniteSets, TLC

VARIABLES
    keys,                 \* the keys present in st.session_state
    service_metadata,     \* st.session_state.service_metadata
    selected_cortex_search_service,
    use_chat_history,     \* st.session_state.use_chat_history
    num_chat_messages,    \* st.session_state.num_chat_messages
    messages,             \* st.session_state.messages
    pinned_messages,      \* st.session_state.pinned_messages
    widgets,              \* the interactive widgets the last run rendered
    disable_chat,         \* main(): disable_chat of the last run
    event,                \* the event the last run handled
    dropped,              \* Turns init_messages discarded in the last run
    question,             \* main(): the value st.chat_input returned
    chat_history,         \* build_prompt(): chat_history
    rewrite_calls,        \* the summarize_chat calls of the last run
    search_calls,         \* the queries query_cortex sent in the last run
    prompts,              \* the prompts line 179 handed to complete()
    status                \* how the question/answer cycle of the last run ended

vars == << keys, service_metadata, selected_cortex_search_service,
           use_chat_history, num_chat_messages, messages, pinned_messages,
           widgets, disable_chat, event, dropped, question, chat_history,
           rewrite_calls, search_calls, prompts, status >>

-----------------------------------------------------------------------------
(* Bounds and program constants *)

MaxTurns == 4

MinChatMessages == 1
MaxChatMessages == 10
DefaultChatMessages == 5

None == <<"N", "o", "n", "e">>

\* what the user may type into the chat input (never empty: an empty
\* submission is falsy and line 175 skips it)
Questions == { <<"a">>, <<"'", "b", "'">> }

\* raw texts the hosted model may return
Completions == { <<"r">>, <<"$">> }

\* what SHOW CORTEX SEARCH SERVICES / DESC may discover
Discoverable == { <<>>, << [name |-> <<"S">>, search_column |-> <<"c">>] >> }

\* result lists (the search column of each record) the search service may return
ResultLists == { <<>>, << <<"d">> >> }

Failure == [ok |-> FALSE, value |-> <<>>]
Success(v) == [ok |-> TRUE, value |-> v]

LLMOutcomes == {Failure} \cup { Success(c) : c \in Completions }
SearchOutcomes == {Failure} \cup { Success(r) : r \in ResultLists }
DiscoveryOutcomes == {Failure} \cup { Success(d) : d \in Discoverable }

-----------------------------------------------------------------------------
(* Text helpers: Python str operations *)

RECURSIVE Join(_, _)
\* sep.join(texts)
Join(texts, sep) ==
    IF texts = <<>> THEN <<>>
    ELSE IF Len(texts) = 1 THEN texts[1]
    ELSE texts[1] \o sep \o Join(Tail(texts), sep)

RECURSIVE Replace(_, _, _)
\* text.replace(old, new) for a one-character old
Replace(text, old, new) ==
    IF text = <<>> THEN <<>>
    ELSE (IF Head(text) = old THEN new ELSE <<Head(text)>>)
         \o Replace(Tail(text), old, new)

RECURSIVE ReplaceFirst(_, _, _)
ReplaceFirst(text, old, new) ==
    IF text = <<>> THEN <<>>
    ELSE IF Head(text) = old THEN new \o Tail(text)
    ELSE <<Head(text)>> \o ReplaceFirst(Tail(text), old, new)

Min(a, b) == IF a < b THEN a ELSE b
Max(a, b) == IF a > b THEN a ELSE b

\* the 1-based positions Python's s[start:stop] selects in a list of length n
SliceIndex(n, i) == IF i < 0 THEN Max(n + i, 0) ELSE Min(i, n)
SlicePositions(n, start, stop) ==
    LET lo == SliceIndex(n, start)
        hi == SliceIndex(n, stop)
    IN  [k \in 1..Max(hi - lo, 0) |-> lo + k]

Pick(s, positions) == [k \in 1..Len(positions) |-> s[positions[k]]]

-----------------------------------------------------------------------------
(* The functions of streamlit_app.py *)

\* complete(): the model's text with every "$" escaped
complete(outcome) ==
    IF outcome.ok THEN Success(Replace(outcome.value, "$", <<"\\", "$">>))
    ELSE Failure

Turn(role, content) == [role |-> role, content |-> content]

\* init_messages(): the Conversation after it
init_messagesAlways(clear_conversation) == <<>>
init_messagesNever(clear_conversation) == messages
init_messages(clear_conversation) ==
    IF clear_conversation \/ "messages" \notin keys THEN <<>> ELSE messages

\* the positions of the Conversation get_chat_history() returns
WindowPositionsToEnd(msgs, n) == SlicePositions(Len(msgs), -n, Len(msgs))
WindowPositions(msgs, n) == SlicePositions(Len(msgs), -n, -1)

get_chat_history(msgs, n) == Pick(msgs, WindowPositions(msgs, n))

\* summarize_chat(): the prompt of the history-aware rewrite
summarize_chat_prompt(chat_text, q) == [chat_history |-> chat_text, question |-> q]

\* build_prompt() line 61
HistoryOf(msgs, use, n) == IF use THEN get_chat_history(msgs, n) ELSE <<>>

\* build_prompt() line 62
ContentsOf(turns) == [k \in 1..Len(turns) |-> turns[k].content]
ChatTextAllRoles(history) == Join(ContentsOf(history), <<"\n">>)
ChatText(history) ==
    Join(ContentsOf(SelectSeq(history, LAMBDA m : m.role = "user")), <<"\n">>)

\* build_prompt() lines 65-77: the three slots of the instruction template
FinalPrompt(chat_text, context, q) ==
    [chat_history |-> chat_text, context |-> context, question |-> q]

Digits == <<"1", "2", "3", "4", "5", "6", "7", "8", "9">>

\* query_cortex() line 84
FormatContext(results) ==
    Join([i \in 1..Len(results) |->
            <<"C", "o", "n", "t", "e", "x", "t", " ", Digits[i], ":", " ">>
            \o results[i]],
         <<"\n", "\n">>)

ServiceNames(metadata) == { metadata[i].name : i \in 1..Len(metadata) }

\* query_cortex(): fails when the service lookup (lines 81-83) or the search fails
query_cortex(outcome, selected, metadata) ==
    IF outcome.ok /\ selected \in ServiceNames(metadata)
    THEN Success(FormatContext(outcome.value))
    ELSE Failure

\* main() line 178: the argument of build_prompt
StripFirstQuote(q) == ReplaceFirst(q, "'", <<>>)
StripQuotes(q) == Replace(q, "'", <<>>)

\* main() line 174
DisableChatNever(metadata) == FALSE
DisableChat(metadata) == metadata = <<>>

\* main() lines 176 and 180
AppendFront(msgs, turn) == <<turn>> \o msgs
AppendTurn(msgs, turn) == Append(msgs, turn)

\* st.selectbox(): keeps a valid selection, else the first option, else None
Selectbox(current, metadata) ==
    IF metadata = <<>> THEN None
    ELSE IF current \in ServiceNames(metadata) THEN current
    ELSE metadata[1].name

SidebarWidgets == {"config", "clear_conversation"}

-----------------------------------------------------------------------------
(* build_prompt() and the question/answer branch of main(), lines 175-181 *)

NoCycle(msgs) ==
    [messages |-> msgs, chat_history |-> <<>>, rewrite_calls |-> <<>>,
     search_calls |-> <<>>, prompts |-> <<>>, status |-> "none"]

\* msgs: the Conversation after init_messages; q: the submitted text;
\* rw, sr, rp: what the rewrite call, the search and the final completion do
AnswerQuestion(msgs, q, use, n, selected, metadata, rw, sr, rp) ==
    LET pending   == AppendTurn(msgs, Turn("user", q))                  \* 176
        bq        == StripQuotes(q)                                     \* 178
        history   == HistoryOf(pending, use, n)                         \* 61
        chat_text == ChatText(history)                                  \* 62
        rewritten == complete(rw)                                       \* 58
        rewrites  == IF history # <<>>                                  \* 63
                     THEN << [prompt |-> summarize_chat_prompt(chat_text, bq),
                              result |-> rewritten] >>
                     ELSE <<>>
        summary   == IF history # <<>> THEN rewritten.value ELSE bq
        context   == query_cortex(sr, selected, metadata)               \* 64
        prompt    == FinalPrompt(chat_text, context.value, bq) \* 65
        reply     == complete(rp)                                       \* 179
        base      == [messages |-> pending, chat_history |-> history,
                      rewrite_calls |-> rewrites, search_calls |-> <<>>,
                      prompts |-> <<>>, status |-> "none"]
    IN  IF history # <<>> /\ ~rewritten.ok
        THEN [base EXCEPT !.status = "rewrite_failed"]
        ELSE IF ~context.ok
        THEN [base EXCEPT !.search_calls = <<summary>>,
                          !.status = "search_failed"]
        ELSE IF ~reply.ok
        THEN [base EXCEPT !.search_calls = <<summary>>,
                          !.prompts = <<prompt>>,
                          !.status = "complete_failed"]
        ELSE [base EXCEPT !.messages = AppendTurn(pending, Turn("assistant", reply.value)),
                          !.search_calls = <<summary>>,
                          !.prompts = <<prompt>>,
                          !.status = "answered"]

-----------------------------------------------------------------------------
(* One run of main() *)

SessionKeys == {"service_metadata", "selected_cortex_search_service",
                "use_chat_history", "num_chat_messages",
                "pinned_messages", "messages"}

\* ev: the event that triggered the run; q: the chat input's value;
\* cfg: the widget values the user set; disc, rw, sr, rp, sm: what the
\* backend does when the run calls it
main(ev, q, cfg, disc, rw, sr, rp, sm) ==
    LET discovered == "service_metadata" \in keys
        metadata == IF discovered THEN service_metadata ELSE disc.value
    IN
    /\ event' = ev
    /\ question' = q
    /\ IF ~discovered /\ ~disc.ok
       THEN \* init_service_metadata raises (lines 39, 43): nothing else runs
            /\ widgets' = {}
            /\ dropped' = 0
            /\ chat_history' = <<>>
            /\ rewrite_calls' = <<>>
            /\ search_calls' = <<>>
            /\ prompts' = <<>>
            /\ status' = "discovery_failed"
            /\ UNCHANGED << keys, service_metadata, selected_cortex_search_service,
                            use_chat_history, num_chat_messages, messages,
                            pinned_messages, disable_chat >>
       ELSE
         LET \* init_config, lines 114-123
             current == IF "selected_cortex_search_service" \in keys
                        THEN selected_cortex_search_service ELSE None
             selected == Selectbox(IF ev = "config" THEN cfg.svc ELSE current, metadata)
             use == IF ev = "config" THEN cfg.use
                    ELSE IF "use_chat_history" \in keys THEN use_chat_history
                    ELSE TRUE
             n == IF ev = "config" THEN cfg.n
                  ELSE IF "num_chat_messages" \in keys THEN num_chat_messages
                  ELSE DefaultChatMessages
             \* init_messages, line 158
             msgs == init_messages(ev = "clear")
             \* lines 174-181
             disabled == DisableChat(metadata)
             cycle == IF ev = "submit"
                      THEN AnswerQuestion(msgs, q, use, n, selected, metadata, rw, sr, rp)
                      ELSE NoCycle(msgs)
             aborted == cycle.status \in {"rewrite_failed", "search_failed", "complete_failed"}
             \* lines 183-191
             summarized == ev = "summary" /\ cycle.messages # <<>>
             summary == complete(sm)
         IN
         /\ keys' = keys \cup SessionKeys
         /\ service_metadata' = metadata
         /\ selected_cortex_search_service' = selected
         /\ use_chat_history' = use
         /\ num_chat_messages' = n
         /\ pinned_messages' = IF "pinned_messages" \in keys THEN pinned_messages ELSE <<>>
         /\ messages' = cycle.messages
         /\ dropped' = Len(messages) - Len(msgs)
         /\ disable_chat' = disabled
         /\ chat_history' = cycle.chat_history
         /\ rewrite_calls' = cycle.rewrite_calls
         /\ search_calls' = cycle.search_calls
         /\ prompts' = cycle.prompts
         /\ status' = IF summarized
                      THEN (IF summary.ok THEN "summarized" ELSE "summary_failed")
                      ELSE cycle.status
         /\ widgets' = SidebarWidgets
                       \cup (IF disabled THEN {} ELSE {"chat_input"})
                       \cup (IF ~aborted /\ cycle.messages # <<>>
                             THEN {"summary_button"} ELSE {})
                       \cup (IF ~aborted /\ cycle.messages # <<>>
                                /\ ~(summarized /\ ~summary.ok)
                             THEN {"download_button"} ELSE {})

NoConfig == [use |-> TRUE, n |-> DefaultChatMessages, svc |-> None]

-----------------------------------------------------------------------------
(* The events *)

Init ==
    /\ keys = {}
    /\ service_metadata = <<>>
    /\ selected_cortex_search_service = None
    /\ use_chat_history = TRUE
    /\ num_chat_messages = DefaultChatMessages
    /\ messages = <<>>
    /\ pinned_messages = <<>>
    /\ widgets = {}
    /\ disable_chat = TRUE
    /\ event = "start"
    /\ dropped = 0
    /\ question = <<>>
    /\ chat_history = <<>>
    /\ rewrite_calls = <<>>
    /\ search_calls = <<>>
    /\ prompts = <<>>
    /\ status = "none"

\* page load, or a rerun by a widget that no code reads (theme, topic, upload)
Rerun ==
    \E disc \in IF "service_metadata" \in keys THEN {Failure} ELSE DiscoveryOutcomes :
        main("load", <<>>, NoConfig, disc, Failure, Failure, Failure, Failure)

CurrentConfig ==
    [use |-> use_chat_history, n |-> num_chat_messages,
     svc |-> selected_cortex_search_service]

\* the user picks a search service in the selectbox of line 114
SelectService ==
    /\ "config" \in widgets
    /\ \E svc \in ServiceNames(service_metadata) :
        main("config", <<>>, [CurrentConfig EXCEPT !.svc = svc],
             Failure, Failure, Failure, Failure, Failure)

\* the user flips the Use Chat History toggle of line 117
ToggleHistory ==
    /\ "config" \in widgets
    /\ main("config", <<>>, [CurrentConfig EXCEPT !.use = ~use_chat_history],
            Failure, Failure, Failure, Failure, Failure)

\* the user moves the Chat History Messages slider of line 123
SlideHistory ==
    /\ "config" \in widgets
    /\ \E n \in (MinChatMessages..MaxChatMessages) \ {num_chat_messages} :
        main("config", <<>>, [CurrentConfig EXCEPT !.n = n],
             Failure, Failure, Failure, Failure, Failure)

\* the user clicks Clear Chat
ClearChat ==
    /\ "clear_conversation" \in widgets
    /\ main("clear", <<>>, NoConfig, Failure, Failure, Failure, Failure, Failure)

\* the user submits a question; llm and search are what the backend may do
SubmitWith(llm, search) ==
    /\ "chat_input" \in widgets
    /\ Len(messages) + 2 <= MaxTurns
    /\ \E q \in Questions, rw \in llm, sr \in search, rp \in llm :
        main("submit", q, NoConfig, Failure, rw, sr, rp, Failure)

Submit == SubmitWith(LLMOutcomes, SearchOutcomes)

\* a submission during which no backend call fails
SubmitAnswered == SubmitWith(LLMOutcomes \ {Failure}, SearchOutcomes \ {Failure})

\* the user clicks Generate Insight Summary
GenerateSummary ==
    /\ "summary_button" \in widgets
    /\ \E sm \in LLMOutcomes :
        main("summary", <<>>, NoConfig, Failure, Failure, Failure, Failure, sm)

\* the user clicks Download .txt
Download ==
    /\ "download_button" \in widgets
    /\ main("download", <<>>, NoConfig, Failure, Failure, Failure, Failure, Failure)

Next ==
    \/ Rerun
    \/ SelectService
    \/ ToggleHistory
    \/ SlideHistory
    \/ ClearChat
    \/ Submit
    \/ GenerateSummary
    \/ Download

Spec == Init /\ [][Next]_vars

\* the session while search and completion calls all succeed
NextReliable ==
    \/ Rerun
    \/ SelectService
    \/ ToggleHistory
    \/ SlideHistory
    \/ ClearChat
    \/ SubmitAnswered
    \/ GenerateSummary
    \/ Download

SpecReliable == Init /\ [][NextReliable]_vars

TypeOK ==
    /\ keys \subseteq SessionKeys
    /\ use_chat_history \in BOOLEAN
    /\ num_chat_messages \in MinChatMessages..MaxChatMessages
    /\ Len(messages) <= MaxTurns
    /\ pinned_messages = <<>>

-----------------------------------------------------------------------------
(* Vocabulary of the properties *)

IsPrefix(s, t) == Len(s) <= Len(t) /\ \A i \in 1..Len(s) : s[i] = t[i]

Failed == {"rewrite_failed", "search_failed", "complete_failed"}

\* the position of the user Turn of the last run's question
PendingPosition == IF status = "answered" THEN Len(messages) - 1 ELSE Len(messages)

\* the Turns that precede that user Turn
PriorTurns == SubSeq(messages, 1, PendingPosition - 1)

LastTurns(turns, n) == SubSeq(turns, Len(turns) - Min(n, Len(turns)) + 1, Len(turns))

WithoutQuotes(text) == SelectSeq(text, LAMBDA c : c # "'")

RECURSIVE Lines(_, _)
\* the contents of the Turns whose role is in roles, one per line
Lines(turns, roles) ==
    IF turns = <<>> THEN <<>>
    ELSE IF Head(turns).role \notin roles THEN Lines(Tail(turns), roles)
    ELSE IF \E i \in 2..Len(turns) : turns[i].role \in roles
         THEN Head(turns).content \o <<"\n">> \o Lines(Tail(turns), roles)
         ELSE Head(turns).content

-----------------------------------------------------------------------------
(* C1: in every run that does not handle Clear Chat, the Conversation      *)
(* before the run is a prefix of the Conversation after it.                *)
C1_AppendOnly == [][event' # "clear" => IsPrefix(messages, messages')]_vars

C1_Witness == event = "submit" /\ status = "answered" /\ Len(messages) = 4

(* C2: at the end of a run that handles Clear Chat the Conversation is     *)
(* empty, whatever its length was.                                         *)
C2_ClearEmpties == event = "clear" => messages = <<>>

C2_Witness == event = "clear" /\ dropped >= 3 /\ messages = <<>>

(* C3: a question/answer cycle that fails (rewrite, search or completion)  *)
(* leaves the Conversation as it was before the submission.                *)
C3_FailedCycleAppendsNothing == [][status' \in Failed => messages' = messages]_vars

(* C4 as claimed: the user Turn stored for a submitted question holds the  *)
(* question with every single quote removed.                               *)
C4_StoredTurnStripped ==
    event = "submit" =>
        messages[PendingPosition] = Turn("user", WithoutQuotes(question))

(* C4: the user Turn stored for a submitted question holds the question as *)
(* typed; the quote-free text is what build_prompt works on: it is the     *)
(* question of the rewrite prompt, the query when nothing is rewritten,    *)
(* and the question of the final prompt.                                   *)
C4_PromptQuestionStripped ==
    event = "submit" =>
        /\ messages[PendingPosition] = Turn("user", question)
        /\ \A i \in 1..Len(rewrite_calls) :
               rewrite_calls[i].prompt.question = WithoutQuotes(question)
        /\ (rewrite_calls = <<>> /\ search_calls # <<>>)
               => search_calls = << WithoutQuotes(question) >>
        /\ \A i \in 1..Len(prompts) : prompts[i].question = WithoutQuotes(question)

C4_Witness ==
    /\ event = "submit"
    /\ question = <<"'", "b", "'">>
    /\ rewrite_calls # <<>>
    /\ prompts # <<>>

(* C5: for every n in 1..10 the history window of the Conversation never   *)
(* holds its last position, and it is empty for a Conversation of length   *)
(* 0 or 1.                                                                 *)
C5_WindowExcludesLast ==
    \A n \in MinChatMessages..MaxChatMessages :
        LET positions == WindowPositions(messages, n)
        IN  /\ \A k \in 1..Len(positions) : positions[k] # Len(messages)
            /\ Len(messages) <= 1 => get_chat_history(messages, n) = <<>>

C5_Witness ==
    /\ event = "submit"
    /\ Len(messages) >= 3
    /\ chat_history # <<>>
    /\ get_chat_history(messages, num_chat_messages) # <<>>

(* C6: once discovery has found no search service, the chat input is       *)
(* disabled, no question is ever submitted and the Conversation is empty.  *)
C6_DisabledInput ==
    ("service_metadata" \in keys /\ service_metadata = <<>>) =>
        /\ disable_chat
        /\ "chat_input" \notin widgets
        /\ event # "submit"
        /\ messages = <<>>

C6_Witness ==
    /\ "service_metadata" \in keys
    /\ service_metadata = <<>>
    /\ event = "clear"

(* C7: an answered question extends the Conversation by its user Turn and, *)
(* right after it, an assistant Turn; every assistant Turn directly        *)
(* follows a user Turn.                                                    *)
C7_QuestionThenReply ==
    /\ [](\A i \in 1..Len(messages) :
            messages[i].role = "assistant" => i > 1 /\ messages[i - 1].role = "user")
    /\ [][status' = "answered" =>
            /\ Len(messages') = Len(messages) + 2
            /\ IsPrefix(messages, messages')
            /\ messages'[Len(messages) + 1] = Turn("user", question')
            /\ messages'[Len(messages) + 2].role = "assistant"]_vars

C7_Witness ==
    /\ event = "submit"
    /\ status = "answered"
    /\ Len(messages) = 4
    /\ messages[3] = Turn("user", question)
    /\ messages[4].role = "assistant"

(* C8: the history window of a question being answered is the last n Turns *)
(* before its user Turn: min(n, L-1) Turns.                                *)
C8_WindowIsLastN ==
    (event = "submit" /\ use_chat_history) =>
        /\ chat_history = LastTurns(PriorTurns, num_chat_messages)
        /\ Len(chat_history) = Min(num_chat_messages, PendingPosition - 1)

(* C9 as claimed: the final prompt carries the content of every Turn of    *)
(* the history window, the retrieved context and the question as given.    *)
C9_PromptHasWholeWindow ==
    \A i \in 1..Len(prompts) :
        /\ prompts[i].chat_history = Lines(chat_history, {"user", "assistant"})
        /\ prompts[i].context \in { FormatContext(r) : r \in ResultLists }
        /\ prompts[i].question = WithoutQuotes(question)

(* C9: the final prompt carries the content of the user Turns of the       *)
(* history window only, the retrieved context and the question as given to *)
(* build_prompt, not its rewritten form.                                   *)
C9_PromptHasUserTurns ==
    \A i \in 1..Len(prompts) :
        /\ prompts[i].chat_history = Lines(chat_history, {"user"})
        /\ prompts[i].context \in { FormatContext(r) : r \in ResultLists }
        /\ prompts[i].question = WithoutQuotes(question)

C9_Witness ==
    /\ prompts # <<>>
    /\ \E i \in 1..Len(chat_history) : chat_history[i].role = "assistant"
    /\ \E i \in 1..Len(chat_history) : chat_history[i].role = "user"
    /\ rewrite_calls # <<>>
    /\ rewrite_calls[1].result.value # prompts[1].question

(* C10: without history (toggle off, or no Turn before the question) the   *)
(* query is the question and nothing is rewritten; with the toggle on and  *)
(* a prior Turn, exactly one rewrite is made over the user Turns of the    *)
(* history and its output is the query.                                    *)
C10_QuerySelection ==
    event = "submit" =>
        IF ~use_chat_history \/ PriorTurns = <<>>
        THEN /\ rewrite_calls = <<>>
             /\ search_calls \in { <<>>, << WithoutQuotes(question) >> }
        ELSE /\ Len(rewrite_calls) = 1
             /\ rewrite_calls[1].prompt.chat_history = Lines(chat_history, {"user"})
             /\ rewrite_calls[1].prompt.question = WithoutQuotes(question)
             /\ search_calls \in { <<>>, << rewrite_calls[1].result.value >> }

====
